---- MODULE Spec2Model ----
(***************************************************************************)
(* Model of the InsForge VS Code extension's MCP installation flow:        *)
(*   src/src/commands/installMcp.ts  (runInstaller, installMcp,            *)
(*                                    retryVerification)                   *)
(*   src/src/utils/chatOpener.ts     (tryOpenChatWithPrompt and helpers)   *)
(*   src/src/utils/mcpVerifier.ts    (verifyMcpInstallation; its source is *)
(*                                    not available, modelled from the     *)
(*                                    written specification, section 4.2)  *)
(*                                                                         *)
(* Conventions.  A nullable / optional JavaScript value is a tuple of      *)
(* length 0 (absent: null, undefined) or 1 (present).  A message string    *)
(* built by a template is a tuple of its parts.  A string of characters    *)
(* that the code inspects (the chat prompt) is a sequence of one-character *)
(* strings.                                                                *)
(***************************************************************************)
EXTENDS Integers, Sequences, FiniteSets, TLC

\* ------------------------------------------------------------------ bounds
\* chunks of installer output delivered on each of stdout / stderr
MaxChunks == 1
\* installMcp runs started through the "Retry" action of a failure message
MaxRuns == 2
\* poll cycles started through the "Retry Verification" action
MaxManualRetries == 1
\* length of a caller-supplied chat prompt
MaxPromptLen == 2
\* workspace folders open in the window ("several" is 2 and above)
MaxFolders == 2
\* installMcp runs under way side by side
MaxConcurrentRuns == 2
MaxInvocations == 4

\* ------------------------------------------------------- program constants
MCP_VERIFY_DELAY_MS == 2000
MCP_RETRY_MAX_ATTEMPTS == 3
OneAttemptFewer == MCP_RETRY_MAX_ATTEMPTS - 1
MCP_VERIFY_MAX_ATTEMPTS == 3
DEFAULT_PASTE_DELAY_MS == 150
\* the shortened delay used when the open-chat command was skipped
SKIP_PASTE_DELAY_MS == 50

None == <<>>
Some(v) == <<v>>

\* ------------------------------------------------------------------- state
\* runInstaller: the child process (none, running, spawnFailed, exited), its
\* exit code, the output buffers, the settled value of the promise the runner
\* returns (None while pending), the resolving events in the order their
\* handlers ran, whether the cancellation token has fired, the 'error' event
\* Node is about to emit, whether 'close' was emitted, spawn and kill calls,
\* and spawnOptions.cwd of the latest spawn
VARIABLES proc, exitCode, stdout, stderr, result, ilog, cancelFired,
          errPending, closeEmitted, spawnCount, killCount, cwd

\* the host: notifications shown (level, text, action buttons), the ones still
\* open, and the terminals created so far
VARIABLES notes, open, terminals

\* tryOpenChatWithPrompt: the position of the call, its arguments, the
\* clipboard, the value returned, whether an error left the call, the host
\* primitives that raised, the calls made on host primitives, and the local
\* shouldSkipCommand
VARIABLES cpc, cClient, cPrompt, cTerminal, clipboard, chatResult, chatThrew,
          cFails, fx, shouldSkipCommand

\* verifyMcpInstallation: the position of the poll cycle, the attempts made,
\* the error of the latest failed attempt, the tool list the latest attempt
\* returned (empty when it failed), whose callbacks it reports to
\* ("install": the ones installMcp passes, "retry": the ones
\* retryVerification passes), and the position of installMcp's async
\* onVerified callback
VARIABLES vpc, attempts, lastError, lastTools, cycle, cbpc

\* installMcp: its position, the client picked, the folder resolved, the
\* installer-output terminal, the steps of the run in order (the names of the
\* status callbacks called among them), the arguments of the onFailed and
\* onVerified calls, the value returned, the runs and the manual retries, the
\* number of workspace folders the run read (None when it did not read them),
\* the folder picked in the folder quick-pick, and the rejected promises that
\* no handler was attached to
VARIABLES pc, clientPick, workspaceFolder, terminal, log, failedArgs,
          verifiedArgs, ret, runs, manualRetries, workspaceFolders, folderPick,
          unhandled

instVars == << proc, exitCode, stdout, stderr, result, ilog, cancelFired,
               errPending, closeEmitted, spawnCount, killCount, cwd >>
hostVars == << notes, open, terminals >>
chatVars == << cpc, cClient, cPrompt, cTerminal, clipboard, chatResult,
               chatThrew, cFails, fx, shouldSkipCommand >>
pollVars == << vpc, attempts, lastError, lastTools, cycle, cbpc >>
orchVars == << pc, clientPick, workspaceFolder, terminal, log, failedArgs,
               verifiedArgs, ret, runs, manualRetries, workspaceFolders,
               folderPick, unhandled >>
\* installMcp runs side by side (the command can be invoked while an earlier
\* run is under way): per run its position, the client picked, its installer
\* subprocess (none, running, exited, closed once 'close' was emitted),
\* whether its cancellation fired, the kill() calls on its subprocess, and
\* the value runInstaller resolved with
VARIABLES rpc, rclient, rproc, rcancelled, rkills, rresult

concVars == << rpc, rclient, rproc, rcancelled, rkills, rresult >>
baseVars == << instVars, hostVars, chatVars, pollVars, orchVars >>

\* the command handlers of registerCommands and the state of authProvider
\* they read: whether the user is authenticated, the current project; for
\* each handler its position, its local `project`, the position of its call
\* of ensureAuthenticated with the locals isLoggedIn and login and the value
\* returned;
\* the projects installMcp was invoked for, the status callbacks called, the
\* messages shown, the refreshes of the view and the commands invoked
VARIABLES isAuthenticated, currentProject, hpc, project, epc, isLoggedIn,
          login, ensured, invoked, statusCalls, shown, refreshes, invocations
cmdVars == << isAuthenticated, currentProject, hpc, project, epc, isLoggedIn,
              login, ensured, invoked, statusCalls, shown, refreshes,
              invocations >>
vars == << instVars, hostVars, chatVars, pollVars, orchVars, concVars, cmdVars >>

\* MCP_CLIENTS: the pick list of installMcp (id, projectLocal)
MCP_CLIENTS ==
  << [id |-> "cursor",      projectLocal |-> FALSE],
     [id |-> "claude-code", projectLocal |-> TRUE],
     [id |-> "antigravity", projectLocal |-> FALSE],
     [id |-> "windsurf",    projectLocal |-> FALSE],
     [id |-> "cline",       projectLocal |-> FALSE],
     [id |-> "roocode",     projectLocal |-> FALSE],
     [id |-> "copilot",     projectLocal |-> TRUE],
     [id |-> "codex",       projectLocal |-> FALSE],
     [id |-> "trae",        projectLocal |-> FALSE],
     [id |-> "qoder",       projectLocal |-> FALSE],
     [id |-> "kiro",        projectLocal |-> FALSE] >>

ClientIds == { MCP_CLIENTS[i].id : i \in 1..Len(MCP_CLIENTS) }

\* (a pick list in which no client is project-local)
NoClientProjectLocal(id) == FALSE

ProjectLocal(id) ==
  \E i \in 1..Len(MCP_CLIENTS) : MCP_CLIENTS[i].id = id /\ MCP_CLIENTS[i].projectLocal

\* ------------------------------------------------------------ runInstaller
\* exit codes the installer can exit with on its own
ExitCodes == {0, 1}
\* the codes Node reports with 'close' after a failed spawn (a negative errno)
SpawnFailCodes == {-2}
SpawnErrorMessage == <<"spawn npx ENOENT">>
KillErrorMessage == <<"kill EPERM">>
CancelledMessage == <<"Installation cancelled">>

InstallerResult(success, code, out, err, error) ==
  [success |-> success, exitCode |-> code, stdout |-> out, stderr |-> err,
   error |-> error]

\* the handler of the 'error' event
OnErrorResult(msg, out, err) == InstallerResult(FALSE, None, out, err, msg)

\* the handler of the 'close' event: code is None (null) or Some(n)
OnCloseResultAnyExit(code, out, err) == InstallerResult(code # None, code, out, err, None)
OnCloseResult(code, out, err) == InstallerResult(code = Some(0), code, out, err, None)

\* the handler of onCancellationRequested
OnCancelResultNoError(out, err) == InstallerResult(FALSE, None, out, err, None)
OnCancelResult(out, err) == InstallerResult(FALSE, None, out, err, CancelledMessage)

\* Promise resolve: only the first call settles the promise
ResolveLastWins(current, r) == Some(r)
ResolveNever(current, r) == None
Resolve(current, r) == IF current = None THEN Some(r) ELSE current

InstInit ==
  /\ proc = "none"
  /\ exitCode = None
  /\ stdout = <<>>
  /\ stderr = <<>>
  /\ result = None
  /\ ilog = <<>>
  /\ cancelFired = FALSE
  /\ errPending = None
  /\ closeEmitted = FALSE
  /\ spawnCount = 0
  /\ killCount = 0
  /\ cwd = None

\* (a runner that settles its promise when it spawns, not on an event)
SpawnSettled ==
  /\ spawnCount' = spawnCount + 1
  /\ proc' = "running" /\ errPending' = None /\ exitCode' = None
  /\ stdout' = <<>>
  /\ stderr' = <<>>
  /\ result' = Some(OnCloseResult(Some(0), <<>>, <<>>))
  /\ ilog' = <<>>
  /\ cancelFired' = FALSE
  /\ closeEmitted' = FALSE
  /\ killCount' = 0

\* spawn('npx', args, spawnOptions) with the handlers registered: the child
\* starts, or the spawn fails and Node emits 'error' on the next tick
Spawn ==
  /\ spawnCount' = spawnCount + 1
  /\ \/ proc' = "running" /\ errPending' = None /\ exitCode' = None
     \/ /\ proc' = "spawnFailed"
        /\ errPending' = SpawnErrorMessage
        /\ \E c \in SpawnFailCodes : exitCode' = Some(c)
  /\ stdout' = <<>>
  /\ stderr' = <<>>
  /\ result' = None
  /\ ilog' = <<>>
  /\ cancelFired' = FALSE
  /\ closeEmitted' = FALSE
  /\ killCount' = 0

\* one resolving event as the runner saw it: the handler, the state of the
\* child when it ran, and the value it passed to resolve
Event(ev, r) == [ev |-> ev, at |-> proc, res |-> r]

\* stdout 'data': stdout += data.toString()
StdoutData ==
  /\ proc \in {"running", "exited"}
  /\ ~closeEmitted
  /\ Len(stdout) < MaxChunks
  /\ stdout' = Append(stdout, "out")
  /\ UNCHANGED << proc, exitCode, stderr, result, ilog, cancelFired,
                  errPending, closeEmitted, spawnCount, killCount, cwd >>
  /\ UNCHANGED << hostVars, chatVars, pollVars, orchVars >>
  /\ UNCHANGED << concVars, cmdVars >>

\* stderr 'data': stderr += data.toString()
StderrData ==
  /\ proc \in {"running", "exited"}
  /\ ~closeEmitted
  /\ Len(stderr) < MaxChunks
  /\ stderr' = Append(stderr, "err")
  /\ UNCHANGED << proc, exitCode, stdout, result, ilog, cancelFired,
                  errPending, closeEmitted, spawnCount, killCount, cwd >>
  /\ UNCHANGED << hostVars, chatVars, pollVars, orchVars >>
  /\ UNCHANGED << concVars, cmdVars >>

\* the child ends on its own with an exit code, or is ended by a signal that
\* is not the runner's (exit code null); no handler of the runner listens
ProcessExit ==
  /\ proc = "running"
  /\ proc' = "exited"
  /\ \/ \E c \in ExitCodes : exitCode' = Some(c)
     \/ exitCode' = None
  /\ UNCHANGED << stdout, stderr, result, ilog, cancelFired, errPending,
                  closeEmitted, spawnCount, killCount, cwd >>
  /\ UNCHANGED << hostVars, chatVars, pollVars, orchVars >>
  /\ UNCHANGED << concVars, cmdVars >>

\* installerProcess.on('error', ...)
OnError ==
  /\ errPending # None
  /\ LET r == OnErrorResult(errPending, stdout, stderr) IN
       /\ result' = Resolve(result, r)
       /\ ilog' = Append(ilog, Event("error", r))
  /\ errPending' = None
  /\ UNCHANGED << proc, exitCode, stdout, stderr, cancelFired, closeEmitted,
                  spawnCount, killCount, cwd >>
  /\ UNCHANGED << hostVars, chatVars, pollVars, orchVars >>
  /\ UNCHANGED << concVars, cmdVars >>

\* installerProcess.on('close', ...): the child has ended and its streams have
\* closed; after a failed spawn 'close' follows 'error'
OnClose ==
  /\ \/ proc = "exited"
     \/ proc = "spawnFailed" /\ errPending = None
  /\ ~closeEmitted
  /\ closeEmitted' = TRUE
  /\ LET r == OnCloseResult(exitCode, stdout, stderr) IN
       /\ result' = Resolve(result, r)
       /\ ilog' = Append(ilog, Event("close", r))
  /\ UNCHANGED << proc, exitCode, stdout, stderr, cancelFired, errPending,
                  spawnCount, killCount, cwd >>
  /\ UNCHANGED << hostVars, chatVars, pollVars, orchVars >>
  /\ UNCHANGED << concVars, cmdVars >>

\* installerProcess.kill(): SIGTERM ends a running child (exit code null), or
\* the child outlives it, or the signal cannot be sent and Node emits 'error';
\* on a child that has ended, or never started, kill() does nothing
Kill ==
  /\ killCount' = killCount + 1
  /\ IF proc = "running"
       THEN \/ proc' = "exited" /\ exitCode' = None /\ errPending' = errPending
            \/ proc' = proc /\ exitCode' = exitCode /\ errPending' = errPending
            \/ proc' = proc /\ exitCode' = exitCode /\ errPending' = KillErrorMessage
       ELSE proc' = proc /\ exitCode' = exitCode /\ errPending' = errPending

\* cancellationToken.onCancellationRequested(...): fires at most once; a failed
\* spawn's 'error' is emitted on the next tick, ahead of any cancellation
OnCancel ==
  /\ proc # "none"
  /\ ~cancelFired
  /\ ~(proc = "spawnFailed" /\ errPending # None)
  /\ cancelFired' = TRUE
  /\ Kill
  /\ LET r == OnCancelResult(stdout, stderr) IN
       /\ result' = Resolve(result, r)
       /\ ilog' = Append(ilog, Event("cancel", r))
  /\ UNCHANGED << stdout, stderr, closeEmitted, spawnCount, cwd >>

\* ----------------------------------------------------------- the chat table
\* characters of a prompt: a double quote, a backslash, any other character
DQ == "dq"
BS == "bs"
Chars == {"x", DQ, BS}

\* INSFORGE_WELCOME_PROMPT, which holds apostrophes and no double quote
INSFORGE_WELCOME_PROMPT == <<"x", "x">>

Undefined == "undefined"

ChatCommandConfig(fmt, command, terminalCommand, pasteDelayMs, skipCommandIfContext) ==
  [paramFormat |-> fmt, command |-> command, terminalCommand |-> terminalCommand,
   pasteDelayMs |-> pasteDelayMs, skipCommandIfContext |-> skipCommandIfContext]

\* (a table in which every id, listed or not, has the direct-query entry)
ChatCommandsAllDirect(clientId) ==
  Some(ChatCommandConfig("object", "workbench.action.chat.open", Undefined, None, None))

\* (a table that holds no id)
ChatCommandsEmpty(clientId) == None

\* CHAT_COMMANDS[clientId]; None for an id the table does not hold
CHAT_COMMANDS(clientId) ==
  CASE clientId = "cursor" ->
         Some(ChatCommandConfig("object", "workbench.action.chat.open", Undefined, None, None))
    [] clientId = "copilot" ->
         Some(ChatCommandConfig("object", "workbench.action.chat.open", Undefined, None, None))
    [] clientId = "trae" ->
         Some(ChatCommandConfig("clipboard", "workbench.action.chat.icube.open", Undefined, None, None))
    [] clientId = "qoder" ->
         Some(ChatCommandConfig("clipboard", "workbench.action.aichat.open", Undefined, None, Some("inChat")))
    [] clientId = "antigravity" ->
         Some(ChatCommandConfig("clipboard", "antigravity.prioritized.chat.open", Undefined, None, None))
    [] clientId = "windsurf" ->
         Some(ChatCommandConfig("clipboard", "windsurf.prioritized.chat.openNewConversation", Undefined, None, None))
    [] clientId = "kiro" ->
         Some(ChatCommandConfig("clipboard", "kiroAgent.focusContinueInput", Undefined, Some(1000), None))
    [] clientId = "claude-code" ->
         Some(ChatCommandConfig("terminal", Undefined, "claude", None, None))
    [] clientId = "codex" ->
         Some(ChatCommandConfig("terminal", Undefined, "codex", None, None))
    [] clientId = "cline" ->
         Some(ChatCommandConfig(Undefined, Undefined, Undefined, None, None))
    [] clientId = "roocode" ->
         Some(ChatCommandConfig(Undefined, Undefined, Undefined, None, None))
    [] OTHER -> None

\* usesTerminalChat(clientId): config?.paramFormat === 'terminal'
UsesTerminalChatNever(clientId) == FALSE
usesTerminalChat(clientId) ==
  LET config == CHAT_COMMANDS(clientId) IN
    config # None /\ config[1].paramFormat = "terminal"

\* ---------------------------------------------------------- host primitives
Note(level, text, actions) == [level |-> level, text |-> text, actions |-> actions]

\* window.show{Information,Warning,Error}Message(text, ...actions)
Notify(n) ==
  /\ notes' = Append(notes, n)
  /\ open' = open \cup {Len(notes) + 1}

\* String(error) of the error a failed host primitive raises
HostError(primitive) == <<"Error", primitive>>

\* --------------------------------------------------- tryOpenChatWithPrompt
ChatOpenResult(success, method, error) ==
  [success |-> success, method |-> method, error |-> error]

\* one call of a host primitive: its name, its argument, whether it returned
Effect(op, arg, ok) == [op |-> op, arg |-> arg, ok |-> ok]

\* config.paramFormat, with "undefined" for no config or no paramFormat
ParamFormat(clientId) ==
  LET config == CHAT_COMMANDS(clientId) IN
    IF config = None THEN Undefined ELSE config[1].paramFormat

\* the branches of tryOpenChatWithPrompt whose call is awaited inside the try
\* block, so that an error raised in them reaches the catch clause
AwaitedInTryButClipboard == {"object", "terminal"}
AwaitedInTryButObject == {"clipboard", "terminal"}
AwaitedInTry == {"object", "clipboard", "terminal"}

\* prompt.replace(/"/g, '\\"'): a backslash before every double quote
RECURSIVE EscapeQuotes(_)
EscapeQuotes(prompt) ==
  IF prompt = <<>> THEN <<>>
  ELSE IF Head(prompt) = DQ
         THEN <<BS, DQ>> \o EscapeQuotes(Tail(prompt))
         ELSE <<Head(prompt)>> \o EscapeQuotes(Tail(prompt))

\* (the command with the prompt embedded as it is)
FullCommandUnescaped(terminalCommand, prompt) ==
  <<terminalCommand, " ", DQ>> \o prompt \o <<DQ>>

\* `${terminalCommand} "${escapedPrompt}"`
FullCommand(terminalCommand, prompt) ==
  <<terminalCommand, " ", DQ>> \o EscapeQuotes(prompt) \o <<DQ>>

\* the text openChatWithClipboardPaste hands to clipboard.writeText
ClipboardTextEscaped(prompt) == EscapeQuotes(prompt)
ClipboardText(prompt) == prompt

\* what the paste timer resolves with: a clipboard success whether the paste
\* command returned or raised
PasteOutcomeStrict(ok) ==
  ChatOpenResult(ok, "clipboard", IF ok THEN None ELSE HostError("pasteCommand"))
PasteOutcome(ok) == ChatOpenResult(TRUE, "clipboard", None)

ChatIdle ==
  /\ cpc = "idle"
  /\ cClient = "none"
  /\ cPrompt = <<>>
  /\ cTerminal = None
  /\ chatResult = None
  /\ chatThrew = FALSE
  /\ cFails = {}
  /\ fx = <<>>
  /\ shouldSkipCommand = FALSE

\* the call tryOpenChatWithPrompt(clientId, prompt, options)
ChatCall(clientId, prompt, existingTerminal) ==
  /\ cpc' = "start"
  /\ cClient' = clientId
  /\ cPrompt' = prompt
  /\ cTerminal' = existingTerminal
  /\ chatResult' = None
  /\ chatThrew' = FALSE
  /\ cFails' = {}
  /\ fx' = <<>>
  /\ shouldSkipCommand' = FALSE

\* the call returns `r`
ChatReturn(r) ==
  /\ cpc' = "done"
  /\ chatResult' = Some(r)
  /\ chatThrew' = FALSE

\* host primitive `primitive` raised an error in the branch of `fmt`: the catch
\* clause turns it into a result, or it leaves the call as a rejection
ChatRaise(fmt, primitive) ==
  /\ cpc' = "done"
  /\ cFails' = cFails \cup {primitive}
  /\ IF fmt \in AwaitedInTry
       THEN /\ chatResult' = Some(ChatOpenResult(FALSE, "none", HostError(primitive)))
            /\ chatThrew' = FALSE
       ELSE /\ chatResult' = None
            /\ chatThrew' = TRUE

\* no config or no paramFormat: silently skip
ChatSkip ==
  /\ cpc = "start"
  /\ ParamFormat(cClient) = Undefined
  /\ ChatReturn(ChatOpenResult(TRUE, "none", None))
  /\ UNCHANGED << cClient, cPrompt, cTerminal, clipboard, cFails, fx,
                  shouldSkipCommand, hostVars >>
  /\ UNCHANGED << instVars, pollVars, orchVars >>
  /\ UNCHANGED << concVars, cmdVars >>

\* paramFormat 'object': executeCommand(config.command, {query, isPartialQuery})
ChatObject ==
  /\ cpc = "start"
  /\ ParamFormat(cClient) = "object"
  /\ \E ok \in BOOLEAN :
       /\ fx' = Append(fx, Effect("executeCommand",
                                  <<CHAT_COMMANDS(cClient)[1].command, cPrompt, TRUE>>, ok))
       /\ IF ok
            THEN ChatReturn(ChatOpenResult(TRUE, "command", None)) /\ cFails' = cFails
            ELSE ChatRaise("object", "executeCommand")
  /\ UNCHANGED << cClient, cPrompt, cTerminal, clipboard, shouldSkipCommand, hostVars >>
  /\ UNCHANGED << instVars, pollVars, orchVars >>
  /\ UNCHANGED << concVars, cmdVars >>

\* openChatWithClipboardPaste, step 1: clipboard.writeText(prompt)
ChatClipboardWrite ==
  /\ cpc = "start"
  /\ ParamFormat(cClient) = "clipboard"
  /\ \E ok \in BOOLEAN :
       /\ fx' = Append(fx, Effect("clipboard.writeText", ClipboardText(cPrompt), ok))
       /\ IF ok
            THEN /\ clipboard' = Some(ClipboardText(cPrompt))
                 /\ cpc' = IF CHAT_COMMANDS(cClient)[1].skipCommandIfContext # None
                             THEN "probe" ELSE "open"
                 /\ UNCHANGED << chatResult, chatThrew, cFails >>
            ELSE /\ clipboard' = clipboard
                 /\ ChatRaise("clipboard", "clipboard.writeText")
  /\ UNCHANGED << cClient, cPrompt, cTerminal, shouldSkipCommand, hostVars >>
  /\ UNCHANGED << instVars, pollVars, orchVars >>
  /\ UNCHANGED << concVars, cmdVars >>

\* what executeCommand('getContext', key) can give back
ContextValues == {"true", "false", "undefined", "other"}

\* getContextValue: the value read, or undefined when the command raises
getContextValue(raised, value) == IF raised THEN "undefined" ELSE value

\* the delay before the paste: 50 ms when the open command was skipped
PasteDelayOnly(skipped, delayMs) ==
  IF delayMs = None THEN DEFAULT_PASTE_DELAY_MS ELSE delayMs[1]
ActualDelay(skipped, delayMs) ==
  IF skipped THEN SKIP_PASTE_DELAY_MS
  ELSE IF delayMs = None THEN DEFAULT_PASTE_DELAY_MS ELSE delayMs[1]

\* setTimeout(..., actualDelay)
SetPasteTimer(effects, skipped) ==
  Append(effects, Effect("setTimeout",
                         <<ActualDelay(skipped, CHAT_COMMANDS(cClient)[1].pasteDelayMs)>>, TRUE))

\* step 2: probe the context key; contextValue === true skips the open command
ChatProbe ==
  /\ cpc = "probe"
  /\ \E raised \in BOOLEAN : \E value \in ContextValues :
       LET contextValue == getContextValue(raised, value)
           probed == Append(fx, Effect("getContext",
                        <<CHAT_COMMANDS(cClient)[1].skipCommandIfContext[1], contextValue>>,
                        ~raised)) IN
         /\ (raised => value = "undefined")
         /\ shouldSkipCommand' = (contextValue = "true")
         /\ cFails' = IF raised THEN cFails \cup {"getContext"} ELSE cFails
         /\ IF contextValue = "true"
              THEN cpc' = "paste" /\ fx' = SetPasteTimer(probed, TRUE)
              ELSE cpc' = "open" /\ fx' = probed
  /\ UNCHANGED << cClient, cPrompt, cTerminal, clipboard, chatResult, chatThrew, hostVars >>
  /\ UNCHANGED << instVars, pollVars, orchVars >>
  /\ UNCHANGED << concVars, cmdVars >>

ManualOpenNote ==
  Note("info", "Prompt copied to clipboard. Please open the AI chat and paste it.", {"OK"})
ManualPasteNote ==
  Note("info", "Prompt copied to clipboard. Please paste it into the chat input.", {"OK"})

\* step 3: executeCommand(command); on failure tell the user and stop
ChatOpenCommand ==
  /\ cpc = "open"
  /\ \E ok \in BOOLEAN :
       LET opened == Append(fx, Effect("executeCommand",
                                       <<CHAT_COMMANDS(cClient)[1].command>>, ok)) IN
       IF ok
         THEN /\ cpc' = "paste"
              /\ fx' = SetPasteTimer(opened, FALSE)
              /\ UNCHANGED << chatResult, chatThrew, cFails, hostVars >>
         ELSE /\ fx' = opened
              /\ cFails' = cFails \cup {"openCommand"}
              /\ Notify(ManualOpenNote)
              /\ ChatReturn(ChatOpenResult(TRUE, "clipboard", None))
              /\ UNCHANGED terminals
  /\ UNCHANGED << cClient, cPrompt, cTerminal, clipboard, shouldSkipCommand >>
  /\ UNCHANGED << instVars, pollVars, orchVars >>
  /\ UNCHANGED << concVars, cmdVars >>

\* steps 4 and 5: the timer fires and the paste command runs
ChatPaste ==
  /\ cpc = "paste"
  /\ \E ok \in BOOLEAN :
       /\ fx' = Append(fx, Effect("executeCommand",
                                  <<"editor.action.clipboardPasteAction">>, ok))
       /\ IF ok
            THEN UNCHANGED << cFails, hostVars >>
            ELSE /\ cFails' = cFails \cup {"pasteCommand"}
                 /\ Notify(ManualPasteNote)
                 /\ UNCHANGED terminals
       /\ ChatReturn(PasteOutcome(ok))
  /\ UNCHANGED << cClient, cPrompt, cTerminal, clipboard, shouldSkipCommand >>
  /\ UNCHANGED << instVars, pollVars, orchVars >>
  /\ UNCHANGED << concVars, cmdVars >>

\* openChatWithTerminal: existingTerminal ?? createTerminal, show, sendText;
\* failAt is the primitive that raises, "none" when all return
ChatTerminal ==
  /\ cpc = "start"
  /\ ParamFormat(cClient) = "terminal"
  /\ \E failAt \in {"none", "createTerminal", "terminal.show", "terminal.sendText"} :
       LET terminalCommand == CHAT_COMMANDS(cClient)[1].terminalCommand
           creates == cTerminal = None
           term == IF creates THEN terminals + 1 ELSE cTerminal[1]
           e1 == IF creates
                   THEN <<Effect("createTerminal", <<terminalCommand>>, failAt # "createTerminal")>>
                   ELSE <<>>
           e2 == <<Effect("terminal.show", <<term>>, failAt # "terminal.show")>>
           e3 == <<Effect("terminal.sendText",
                          <<term>> \o FullCommand(terminalCommand, cPrompt),
                          failAt # "terminal.sendText")>> IN
         /\ (failAt = "createTerminal" => creates)
         /\ terminals' = IF creates /\ failAt # "createTerminal"
                           THEN terminals + 1 ELSE terminals
         /\ fx' = CASE failAt = "createTerminal" -> fx \o e1
                    [] failAt = "terminal.show" -> fx \o e1 \o e2
                    [] OTHER -> fx \o e1 \o e2 \o e3
         /\ IF failAt = "none"
              THEN ChatReturn(ChatOpenResult(TRUE, "terminal", None)) /\ cFails' = cFails
              ELSE ChatRaise("terminal", failAt)
  /\ UNCHANGED << cClient, cPrompt, cTerminal, clipboard, shouldSkipCommand, notes, open >>
  /\ UNCHANGED << instVars, pollVars, orchVars >>
  /\ UNCHANGED << concVars, cmdVars >>

\* the steps of one call of tryOpenChatWithPrompt
ChatStep ==
  \/ ChatSkip
  \/ ChatObject
  \/ ChatClipboardWrite
  \/ ChatProbe
  \/ ChatOpenCommand
  \/ ChatPaste
  \/ ChatTerminal

\* ------------------------------------------------- verifyMcpInstallation
\* what one attempt to list the server's tools gives: a tool list, or an error
\* (an empty list is a failure)
AttemptOutcomes ==
  { [tools |-> t, error |-> None] : t \in { <<"a">>, <<"a", "b">> } }
    \cup { [tools |-> <<>>, error |-> e] :
             e \in { <<"empty tool list">>, <<"network error">>, <<"rejected">> } }

\* the attempts of one poll cycle
MaxAttempts(kind) ==
  IF kind = "retry" THEN MCP_RETRY_MAX_ATTEMPTS ELSE MCP_VERIFY_MAX_ATTEMPTS

\* an attempt succeeds when it returns a non-empty tool list
AttemptAlwaysSucceeds(outcome) == TRUE
AttemptSucceeds(outcome) == outcome.tools # <<>>

\* after a failed attempt: poll again, or give up with the last error
PollsAgain(made, kind) == made < MaxAttempts(kind)

PollIdle ==
  /\ vpc = "idle"
  /\ attempts = 0
  /\ lastError = None
  /\ lastTools = <<>>
  /\ cycle = "none"
  /\ cbpc = "idle"

\* the call verifyMcpInstallation(apiKey, apiBaseUrl, callbacks)
PollStart(kind) ==
  /\ vpc' = "attempt"
  /\ attempts' = 0
  /\ lastError' = None
  /\ lastTools' = <<>>
  /\ cycle' = kind

\* ------------------------------------------------------------- installMcp
HomeDir == <<"home">>
FolderPath(i) == <<"folder", i>>

\* installerResult.error || `Installer exited with code ${installerResult.exitCode}`
ErrorMsg(r) ==
  IF r.error # None THEN r.error ELSE <<"Installer exited with code", r.exitCode>>

\* step 8: a failed installer ends the run, a successful one is verified
AfterInstallAlwaysVerify(r) == "verify"
AfterInstall(r) == IF ~r.success THEN "failed" ELSE "verify"

\* the callbacks of a poll cycle that go on to call tryOpenChatWithPrompt:
\* only the onVerified callback that installMcp passes
OpensChatOnAnyOutcome(kind, callback) == kind = "install"
NeverOpensChat(kind, callback) == FALSE
OpensChatOnRetryToo(kind, callback) == callback = "onVerified"
OpensChat(kind, callback) == kind = "install" /\ callback = "onVerified"

InstallFailedNote(errorMsg) ==
  Note("error", <<"MCP installation failed", errorMsg>>, {"Retry", "View Terminal"})
NoApiKeyNote ==
  Note("error", <<"Could not retrieve API key for this project">>, {})
VerifiedNote(tools) ==
  Note("info", <<"MCP server verified!", Len(tools)>>, {"View Tools"})
VerifyFailedNote(error) ==
  Note("warning", <<"MCP installed but server verification failed", error>>,
       {"Retry Verification"})
RetryVerifiedNote(tools) ==
  Note("info", <<"MCP server verified!", Len(tools)>>, {})
RetryFailedNote(error) ==
  Note("error", <<"MCP verification failed", error>>, {})
GuardNote(error) ==
  Note("error", <<"Failed to install MCP", error>>, {})

\* a run starts: installMcp(project, ...) is called and shows the client pick
RunStart ==
  /\ pc = "pick"
  /\ clientPick = None
  /\ workspaceFolder = None
  /\ terminal = None
  /\ log = <<>>
  /\ failedArgs = <<>>
  /\ verifiedArgs = <<>>
  /\ ret = None
  /\ workspaceFolders = None
  /\ folderPick = None
  /\ notes = <<>>
  /\ open = {}
  /\ ChatIdle
  /\ PollIdle

\* return <value> from installMcp
ReturnAlwaysTrue(value, steps) ==
  /\ ret' = Some(TRUE)
  /\ pc' = "done"
  /\ log' = log \o steps \o <<"return">>
Return(value, steps) ==
  /\ ret' = Some(value)
  /\ pc' = "done"
  /\ log' = log \o steps \o <<"return">>

\* if (!clientPick): the user closed the quick-pick without a selection
NeverCancelled(pick) == FALSE
Cancelled(pick) == pick = None

\* what a confirmed pick does before the workspace step: it awaits
\* statusCallbacks.onInstallationStarting, which resets the MCP states
StepsOnPickNoReset == <<>>
StepsOnPick == <<"onInstallationStarting">>

\* step 1: the client quick-pick; no selection returns false, a selection
\* awaits onInstallationStarting
PickClient ==
  /\ pc = "pick"
  /\ \E pick \in {None} \cup { Some(id) : id \in ClientIds } :
       /\ clientPick' = pick
       /\ IF Cancelled(pick)
            THEN Return(FALSE, <<>>)
            ELSE /\ log' = log \o StepsOnPick
                 /\ pc' = "workspace"
                 /\ UNCHANGED ret
  /\ UNCHANGED << workspaceFolder, terminal, failedArgs, verifiedArgs, runs,
                  manualRetries, workspaceFolders, folderPick, unhandled,
                  instVars, hostVars, chatVars, pollVars >>
  /\ UNCHANGED << concVars, cmdVars >>

\* step 2: the workspace folder of a project-local client; with several
\* folders open the user picks one, or cancels and the run returns false
ResolveWorkspace ==
  /\ pc = "workspace"
  /\ IF ProjectLocal(clientPick[1])
       THEN \E n \in 0..MaxFolders :
              /\ workspaceFolders' = Some(n)
              /\ \/ n = 0 /\ workspaceFolder' = Some(HomeDir)
                    /\ pc' = "apiKey" /\ UNCHANGED << ret, log, folderPick >>
                 \/ n = 1 /\ workspaceFolder' = Some(FolderPath(1))
                    /\ pc' = "apiKey" /\ UNCHANGED << ret, log, folderPick >>
                 \/ n > 1 /\ \E i \in 1..n : /\ folderPick' = Some(i)
                                              /\ workspaceFolder' = Some(FolderPath(i))
                    /\ pc' = "apiKey" /\ log' = Append(log, "folderPick")
                    /\ UNCHANGED ret
                 \/ n > 1 /\ Return(FALSE, <<"folderPick">>)
                    /\ UNCHANGED << workspaceFolder, folderPick >>
       ELSE /\ workspaceFolder' = None
            /\ pc' = "apiKey"
            /\ UNCHANGED << ret, log, workspaceFolders, folderPick >>
  /\ UNCHANGED << clientPick, terminal, failedArgs, verifiedArgs, runs,
                  manualRetries, unhandled, instVars, hostVars, chatVars,
                  pollVars >>
  /\ UNCHANGED << concVars, cmdVars >>

\* step 3 without a key: an error message, and the run returns false
NoApiKey ==
  /\ pc = "apiKey"
  /\ Notify(NoApiKeyNote)
  /\ Return(FALSE, <<"getProjectApiKey">>)
  /\ UNCHANGED << clientPick, workspaceFolder, terminal, failedArgs, verifiedArgs,
                  runs, manualRetries, workspaceFolders, folderPick, unhandled,
                  terminals, instVars, chatVars, pollVars >>
  /\ UNCHANGED << concVars, cmdVars >>

\* the top-level guard: catch (error) { onFailed(String(error)); error
\* message; return false }
Caught(error, steps) ==
  /\ failedArgs' = Append(failedArgs, error)
  /\ Notify(GuardNote(error))
  /\ Return(FALSE, steps \o <<"caught", "onFailed">>)

\* step 3 when authProvider.getProjectApiKey rejects: the guard takes over
ApiKeyRejected ==
  /\ pc = "apiKey"
  /\ Caught(HostError("getProjectApiKey"), <<"getProjectApiKey">>)
  /\ UNCHANGED << clientPick, workspaceFolder, terminal, verifiedArgs, runs,
                  manualRetries, workspaceFolders, folderPick, unhandled,
                  terminals, instVars, chatVars, pollVars >>
  /\ UNCHANGED << concVars, cmdVars >>

\* the steps from the API key to the installer, in the order of the code:
\* the key is fetched, the status is marked as verifying, the installer is
\* spawned
StepsToInstallerUnmarked == <<"getProjectApiKey", "spawn">>
StepsToInstallerMarkedTwice == <<"getProjectApiKey", "onVerifying", "onVerifying", "spawn">>
StepsToInstaller == <<"getProjectApiKey", "onVerifying", "spawn">>

\* spawnOptions.cwd: set when a workspace folder was resolved
SpawnCwd(folder) == folder

\* steps 3 to 6 with a key: onVerifying, then withProgress calls runInstaller,
\* which spawns the installer
StartInstaller ==
  /\ pc = "apiKey"
  /\ log' = log \o StepsToInstaller
  /\ Spawn
  /\ cwd' = SpawnCwd(workspaceFolder)
  /\ pc' = "installing"
  /\ UNCHANGED << clientPick, workspaceFolder, terminal, failedArgs, verifiedArgs,
                  ret, runs, manualRetries, workspaceFolders, folderPick,
                  unhandled, hostVars, chatVars, pollVars >>
  /\ UNCHANGED << concVars, cmdVars >>

\* steps 7 to 9, once runInstaller has resolved: the output terminal, then
\* either onFailed and the failure message, or the start of the poll cycle
InstallerResolved ==
  /\ pc = "installing"
  /\ result # None
  /\ LET r == result[1] IN
       /\ terminals' = terminals + 1
       /\ terminal' = Some(terminals + 1)
       /\ IF AfterInstall(r) = "failed"
            THEN /\ failedArgs' = Append(failedArgs, ErrorMsg(r))
                 /\ Notify(InstallFailedNote(ErrorMsg(r)))
                 /\ Return(FALSE, <<"resolved", "createTerminal", "onFailed">>)
                 /\ UNCHANGED << vpc, attempts, lastError, lastTools, cycle >>
            ELSE /\ PollStart("install")
                 /\ Return(TRUE, <<"resolved", "createTerminal", "verify">>)
                 /\ UNCHANGED << failedArgs, notes, open >>
  /\ UNCHANGED << clientPick, workspaceFolder, verifiedArgs, runs, manualRetries,
                  workspaceFolders, folderPick, unhandled, cbpc, instVars,
                  chatVars >>
  /\ UNCHANGED << concVars, cmdVars >>

\* the status callback that the handler of `callback` calls:
\* statusCallbacks?.onVerified in onVerified, statusCallbacks?.onFailed in onFailed
ForwardsToFailed(callback) == "onFailed"
Forwards(callback) == callback

\* the status callbacks whose call gives a promise that can reject: the
\* registered onVerified handler is async and marks the project outside its
\* own try; installMcp and retryVerification call it without awaiting it
CanReject(callback) == callback = "onVerified"

\* the poll cycle reports through `callback` of the callbacks it was given:
\* the status callback, then the chat opener or the notification
Report(callback, arg, steps) ==
  /\ \E rejects \in BOOLEAN :
       /\ rejects => CanReject(callback)
       /\ unhandled' = IF rejects THEN unhandled + 1 ELSE unhandled
  /\ IF Forwards(callback) = "onVerified"
       THEN verifiedArgs' = Append(verifiedArgs, arg) /\ failedArgs' = failedArgs
       ELSE failedArgs' = Append(failedArgs, arg) /\ verifiedArgs' = verifiedArgs
  /\ IF OpensChat(cycle, callback)
       THEN /\ log' = log \o steps \o <<Forwards(callback), "tryOpenChat">>
            /\ ChatCall(clientPick[1], INSFORGE_WELCOME_PROMPT,
                        IF usesTerminalChat(clientPick[1]) THEN terminal ELSE None)
            /\ clipboard' = clipboard
            /\ cbpc' = "awaitChat"
       ELSE /\ log' = log \o steps \o <<Forwards(callback)>>
            /\ UNCHANGED << chatVars, cbpc >>
  /\ CASE cycle = "install" /\ callback = "onVerified" -> UNCHANGED << notes, open >>
       [] cycle = "install" /\ callback = "onFailed" -> Notify(VerifyFailedNote(arg))
       [] cycle = "retry" /\ callback = "onVerified" -> Notify(RetryVerifiedNote(arg))
       [] OTHER -> Notify(RetryFailedNote(arg))

\* one attempt of the poll cycle
VerifyAttempt ==
  /\ vpc = "attempt"
  /\ attempts' = attempts + 1
  /\ \E outcome \in AttemptOutcomes :
       /\ lastTools' = outcome.tools
       /\ IF AttemptSucceeds(outcome)
            THEN /\ vpc' = "done"
                 /\ lastError' = lastError
                 /\ Report("onVerified", outcome.tools, <<"attempt">>)
            ELSE /\ lastError' = outcome.error
                 /\ IF PollsAgain(attempts + 1, cycle)
                      THEN /\ vpc' = "delay"
                           /\ log' = Append(log, "attempt")
                           /\ UNCHANGED << failedArgs, verifiedArgs, chatVars, cbpc,
                                           notes, open, unhandled >>
                      ELSE /\ vpc' = "done"
                           /\ Report("onFailed", outcome.error, <<"attempt">>)
  /\ UNCHANGED << cycle, pc, clientPick, workspaceFolder, terminal, ret, runs,
                  manualRetries, workspaceFolders, folderPick, terminals,
                  instVars >>
  /\ UNCHANGED << concVars, cmdVars >>

\* the fixed delay between two attempts has passed
VerifyDelay ==
  /\ vpc = "delay"
  /\ vpc' = "attempt"
  /\ UNCHANGED << attempts, lastError, lastTools, cycle, cbpc, orchVars, instVars,
                  hostVars, chatVars >>
  /\ UNCHANGED << concVars, cmdVars >>

\* installMcp's onVerified callback after `await tryOpenChatWithPrompt(...)`:
\* the "verified" message; a rejected call leaves the callback instead
VerifiedNotify ==
  /\ cbpc = "awaitChat"
  /\ cpc = "done"
  /\ IF chatThrew
       THEN cbpc' = "rejected" /\ UNCHANGED << notes, open, log >>
       ELSE /\ cbpc' = "done"
            /\ log' = Append(log, "chatReturned")
            /\ Notify(VerifiedNote(verifiedArgs[Len(verifiedArgs)]))
  /\ UNCHANGED << vpc, attempts, lastError, lastTools, cycle, pc, clientPick,
                  workspaceFolder, terminal, failedArgs, verifiedArgs, ret, runs,
                  manualRetries, workspaceFolders, folderPick, unhandled,
                  terminals, instVars, chatVars >>
  /\ UNCHANGED << concVars, cmdVars >>

\* the user cancels the progress notification: its token, passed to
\* runInstaller, lives until withProgress returns
CancelProgress ==
  /\ pc = "installing"
  /\ OnCancel
  /\ UNCHANGED << hostVars, chatVars, pollVars, orchVars >>
  /\ UNCHANGED << concVars, cmdVars >>

\* retryVerification(projectId, apiKey, apiBaseUrl, statusCallbacks)
retryVerification ==
  /\ manualRetries < MaxManualRetries
  /\ manualRetries' = manualRetries + 1
  /\ log' = log \o <<"onVerifying", "verify">>
  /\ PollStart("retry")
  /\ UNCHANGED << cbpc, pc, clientPick, workspaceFolder, terminal, failedArgs,
                  verifiedArgs, ret, runs, workspaceFolders, folderPick,
                  unhandled, instVars, chatVars, terminals >>
  /\ UNCHANGED << concVars, cmdVars >>

\* executeCommand('insforge.installMcp'): the command handler calls installMcp
\* for the current project, a new run
NewRun ==
  /\ runs < MaxRuns
  /\ runs' = runs + 1
  /\ pc' = "pick"
  /\ clientPick' = None
  /\ workspaceFolder' = None
  /\ terminal' = None
  /\ log' = <<>>
  /\ failedArgs' = <<>>
  /\ verifiedArgs' = <<>>
  /\ ret' = None
  /\ workspaceFolders' = None
  /\ folderPick' = None
  /\ notes' = <<>>
  /\ open' = {}
  /\ cpc' = "idle"
  /\ cClient' = "none"
  /\ cPrompt' = <<>>
  /\ cTerminal' = None
  /\ chatResult' = None
  /\ chatThrew' = FALSE
  /\ cFails' = {}
  /\ fx' = <<>>
  /\ shouldSkipCommand' = FALSE
  /\ vpc' = "idle"
  /\ attempts' = 0
  /\ lastError' = None
  /\ lastTools' = <<>>
  /\ cycle' = "none"
  /\ cbpc' = "idle"
  /\ UNCHANGED << manualRetries, unhandled, terminals, clipboard, instVars >>
  /\ UNCHANGED << concVars, cmdVars >>

\* the user answers an open notification: dismisses it or picks an action
Select ==
  \E i \in open :
    \/ /\ open' = open \ {i}
       /\ UNCHANGED << notes, terminals, instVars, chatVars, pollVars, orchVars,
                       concVars, cmdVars >>
    \/ /\ "Retry" \in notes[i].actions
       /\ NewRun
    \/ /\ "Retry Verification" \in notes[i].actions
       /\ open' = open \ {i}
       /\ notes' = notes
       /\ retryVerification

\* no run is under way
ConcIdle ==
  /\ rpc = [r \in 1..MaxConcurrentRuns |-> "idle"]
  /\ rclient = [r \in 1..MaxConcurrentRuns |-> "none"]
  /\ rproc = [r \in 1..MaxConcurrentRuns |-> "none"]
  /\ rcancelled = [r \in 1..MaxConcurrentRuns |-> FALSE]
  /\ rkills = [r \in 1..MaxConcurrentRuns |-> 0]
  /\ rresult = [r \in 1..MaxConcurrentRuns |-> None]

\* the two handlers that call ensureAuthenticated and can run side by side
Handlers == {"installMcp", "selectProject"}
ProjectIds == {"p1", "p2"}

\* no command handler is under way
CmdIdle ==
  /\ hpc = [h \in Handlers |-> "idle"]
  /\ project = None
  /\ epc = [h \in Handlers |-> "idle"]
  /\ isLoggedIn = [h \in Handlers |-> None]
  /\ login = [h \in Handlers |-> None]
  /\ ensured = [h \in Handlers |-> None]
  /\ invoked = <<>>
  /\ statusCalls = <<>>
  /\ shown = <<>>
  /\ refreshes = 0
  /\ invocations = 0

\* the handler has called installMcp for the current project of a user who
\* is logged in
CmdRunning ==
  /\ CmdIdle
  /\ isAuthenticated = TRUE
  /\ currentProject = Some("p1")

Init ==
  /\ InstInit
  /\ ConcIdle
  /\ CmdRunning
  /\ terminals = 0
  /\ clipboard = None
  /\ runs = 1
  /\ manualRetries = 0
  /\ unhandled = 0
  /\ RunStart

Next ==
  \/ PickClient
  \/ ResolveWorkspace
  \/ NoApiKey
  \/ ApiKeyRejected
  \/ StartInstaller
  \/ StdoutData
  \/ StderrData
  \/ ProcessExit
  \/ OnError
  \/ OnClose
  \/ CancelProgress
  \/ InstallerResolved
  \/ VerifyAttempt
  \/ VerifyDelay
  \/ ChatStep
  \/ VerifiedNotify
  \/ Select

Spec == Init /\ [][Next]_vars

\* The installer ends, its events are delivered, installMcp goes on once
\* runInstaller has resolved, and every verification attempt returns
FairSpec ==
  /\ Spec
  /\ WF_vars(ProcessExit)
  /\ WF_vars(OnError)
  /\ WF_vars(OnClose)
  /\ WF_vars(InstallerResolved)
  /\ WF_vars(VerifyAttempt)
  /\ WF_vars(VerifyDelay)

\* --------------------------------------------------- runs side by side
Runs == 1..MaxConcurrentRuns

\* what the start of run r does to the subprocesses of the runs under way:
\* spawn creates a process of its own, the earlier ones are not referred to
SupersedeOnNewRun(procs, r) ==
  [q \in Runs |-> IF q # r /\ procs[q] = "running" THEN "exited" ELSE procs[q]]
OnNewRun(procs, r) == procs

\* the command handler calls installMcp, whatever the other runs are doing;
\* the run picks a client and gets to runInstaller, which spawns the installer
RunInstall(r) ==
  /\ rpc[r] = "idle"
  /\ \E id \in ClientIds : rclient' = [rclient EXCEPT ![r] = id]
  /\ rpc' = [rpc EXCEPT ![r] = "installing"]
  /\ rproc' = [OnNewRun(rproc, r) EXCEPT ![r] = "running"]
  /\ UNCHANGED << rcancelled, rkills, rresult, baseVars, cmdVars >>

\* the subprocess of run r ends on its own
RunProcessExit(r) ==
  /\ rproc[r] = "running"
  /\ rproc' = [rproc EXCEPT ![r] = "exited"]
  /\ UNCHANGED << rpc, rclient, rcancelled, rkills, rresult, baseVars, cmdVars >>

\* 'close' of the subprocess of run r, with the exit code 0 or another
RunClose(r) ==
  /\ rproc[r] = "exited"
  /\ \E code \in ExitCodes :
       rresult' = [rresult EXCEPT ![r] =
                     Resolve(rresult[r], OnCloseResult(Some(code), <<>>, <<>>))]
  /\ rproc' = [rproc EXCEPT ![r] = "closed"]
  /\ UNCHANGED << rpc, rclient, rcancelled, rkills, baseVars, cmdVars >>

\* the progress notification of run r is cancelled: the handler registered on
\* that run's token kills that run's installerProcess and resolves
RunCancel(r) ==
  /\ rpc[r] = "installing"
  /\ ~rcancelled[r]
  /\ rcancelled' = [rcancelled EXCEPT ![r] = TRUE]
  /\ rkills' = [rkills EXCEPT ![r] = rkills[r] + 1]
  /\ \/ rproc' = [rproc EXCEPT ![r] = IF rproc[r] = "running" THEN "exited" ELSE rproc[r]]
     \/ rproc' = rproc
  /\ rresult' = [rresult EXCEPT ![r] = Resolve(rresult[r], OnCancelResult(<<>>, <<>>))]
  /\ UNCHANGED << rpc, rclient, baseVars, cmdVars >>

\* runInstaller of run r has resolved and installMcp goes on to its end
RunResolved(r) ==
  /\ rpc[r] = "installing"
  /\ rresult[r] # None
  /\ rpc' = [rpc EXCEPT ![r] = "done"]
  /\ UNCHANGED << rclient, rproc, rcancelled, rkills, rresult, baseVars, cmdVars >>

ConcInit == Init

ConcNext ==
  \/ \E r \in Runs : RunInstall(r)
  \/ \E r \in Runs : RunProcessExit(r)
  \/ \E r \in Runs : RunClose(r)
  \/ \E r \in Runs : RunCancel(r)
  \/ \E r \in Runs : RunResolved(r)

ConcSpec == ConcInit /\ [][ConcNext]_vars

\* ------------------------------------------------- the command handlers
\* the value ensureAuthenticated returns: `return true` only on the branch
\* where isLoggedIn was true, `return false` after the prompt whatever login did
EnsuredValueNow(loggedInAtCall, loggedInNow) == loggedInNow
EnsuredValue(loggedInAtCall, loggedInNow) == loggedInAtCall

\* a handler calls ensureAuthenticated(authProvider, projectsViewProvider)
EnsureCall(h) ==
  /\ epc' = [epc EXCEPT ![h] = "isAuthenticated"]
  /\ isLoggedIn' = [isLoggedIn EXCEPT ![h] = None]
  /\ ensured' = [ensured EXCEPT ![h] = None]
  /\ login' = [login EXCEPT ![h] = None]

\* a command no instance of which is under way is invoked
CanInvoke(h) == hpc[h] \in {"idle", "done", "rejected"} /\ invocations < MaxInvocations

\* the steps of a run of installMcp in which it calls a status callback
RunPositions == {"run", "starting", "verifying"}

StatusCall(cb, id) == [cb |-> cb, id |-> id]

\* insforge.installMcp is invoked: without a current project the handler
\* calls ensureAuthenticated, with one it calls installMcp for it
CmdInstallMcp ==
  /\ CanInvoke("installMcp")
  /\ invocations' = invocations + 1
  /\ project' = currentProject
  /\ IF currentProject = None
       THEN /\ hpc' = [hpc EXCEPT !["installMcp"] = "ensure"]
            /\ EnsureCall("installMcp")
            /\ UNCHANGED invoked
       ELSE /\ hpc' = [hpc EXCEPT !["installMcp"] = "run"]
            /\ invoked' = Append(invoked, currentProject[1])
            /\ UNCHANGED << epc, isLoggedIn, ensured, login >>
  /\ UNCHANGED << isAuthenticated, currentProject, statusCalls, shown, refreshes,
                  baseVars, concVars >>

\* insforge.selectProject is invoked: the handler calls ensureAuthenticated
CmdSelectProject ==
  /\ CanInvoke("selectProject")
  /\ invocations' = invocations + 1
  /\ hpc' = [hpc EXCEPT !["selectProject"] = "ensure"]
  /\ EnsureCall("selectProject")
  /\ UNCHANGED << isAuthenticated, currentProject, project, invoked, statusCalls,
                  shown, refreshes, baseVars, concVars >>

\* `await authProvider.isAuthenticated()` resolves: true returns true, false
\* shows 'Please login first'
IsAuthenticatedResolved(h) ==
  /\ epc[h] = "isAuthenticated"
  /\ isLoggedIn' = [isLoggedIn EXCEPT ![h] = Some(isAuthenticated)]
  /\ IF isAuthenticated
       THEN /\ epc' = [epc EXCEPT ![h] = "returned"]
            /\ ensured' = [ensured EXCEPT ![h] = Some(EnsuredValue(TRUE, isAuthenticated))]
       ELSE /\ epc' = [epc EXCEPT ![h] = "prompt"]
            /\ UNCHANGED ensured
  /\ UNCHANGED << isAuthenticated, currentProject, hpc, project, invoked,
                  statusCalls, shown, refreshes, invocations, login, baseVars, concVars >>

\* the user answers 'Please login first': 'Login' calls authProvider.login(),
\* anything else returns false
LoginPrompt(h) ==
  /\ epc[h] = "prompt"
  /\ \/ /\ login' = [login EXCEPT ![h] = Some("Login")]
        /\ epc' = [epc EXCEPT ![h] = "login"]
        /\ UNCHANGED ensured
     \/ /\ login' = [login EXCEPT ![h] = Some("dismissed")]
        /\ epc' = [epc EXCEPT ![h] = "returned"]
        /\ ensured' = [ensured EXCEPT ![h] = Some(EnsuredValue(FALSE, isAuthenticated))]
  /\ UNCHANGED << isAuthenticated, currentProject, hpc, project, isLoggedIn,
                  invoked, statusCalls, shown, refreshes, invocations, baseVars,
                  concVars >>

\* `await authProvider.login()` resolves, with the user logged in or not; the
\* view is refreshed and ensureAuthenticated returns false
LoginResolved(h) ==
  /\ epc[h] = "login"
  /\ \E ok \in BOOLEAN :
       LET now == IF ok THEN TRUE ELSE isAuthenticated IN
         /\ isAuthenticated' = now
         /\ ensured' = [ensured EXCEPT ![h] = Some(EnsuredValue(FALSE, now))]
  /\ refreshes' = refreshes + 1
  /\ epc' = [epc EXCEPT ![h] = "returned"]
  /\ UNCHANGED << currentProject, hpc, project, isLoggedIn, invoked, statusCalls,
                  shown, invocations, login, baseVars, concVars >>

\* `await authProvider.login()` rejects: ensureAuthenticated and the handler
\* that awaits it end with the rejection
LoginRejected(h) ==
  /\ epc[h] = "login"
  /\ epc' = [epc EXCEPT ![h] = "threw"]
  /\ hpc' = [hpc EXCEPT ![h] = "rejected"]
  /\ UNCHANGED << isAuthenticated, currentProject, project, isLoggedIn, ensured,
                  invoked, statusCalls, shown, refreshes, invocations, login, baseVars,
                  concVars >>

\* the handler of insforge.installMcp without a project, after
\* ensureAuthenticated: false returns, true warns and returns
InstallMcpNoProject ==
  /\ hpc["installMcp"] = "ensure"
  /\ epc["installMcp"] = "returned"
  /\ hpc' = [hpc EXCEPT !["installMcp"] = "done"]
  /\ epc' = [epc EXCEPT !["installMcp"] = "idle"]
  /\ shown' = IF ensured["installMcp"] = Some(TRUE)
                THEN Append(shown, "Please select a project first")
                ELSE shown
  /\ UNCHANGED << isAuthenticated, currentProject, project, isLoggedIn, ensured,
                  invoked, statusCalls, refreshes, invocations, login, baseVars,
                  concVars >>

\* what the rest of the insforge.selectProject handler comes to
SelectOutcomes == {"noOrgs", "noOrgPick", "noProjects", "noProjectPick"} \cup ProjectIds

\* the handler of insforge.selectProject after ensureAuthenticated: false
\* returns; true goes through the organizations and the projects and, when
\* the user picks one, sets the current project
SelectProjectContinue ==
  /\ hpc["selectProject"] = "ensure"
  /\ epc["selectProject"] = "returned"
  /\ hpc' = [hpc EXCEPT !["selectProject"] = "done"]
  /\ epc' = [epc EXCEPT !["selectProject"] = "idle"]
  /\ IF ensured["selectProject"] = Some(TRUE)
       THEN \E outcome \in SelectOutcomes :
              CASE outcome = "noOrgs" ->
                     /\ shown' = Append(shown, "No organizations found")
                     /\ UNCHANGED currentProject
                [] outcome = "noProjects" ->
                     /\ shown' = Append(shown, "No projects found in this organization")
                     /\ UNCHANGED currentProject
                [] outcome \in ProjectIds ->
                     /\ currentProject' = Some(outcome)
                     /\ shown' = Append(shown, "Selected project")
                [] OTHER -> UNCHANGED << shown, currentProject >>
       ELSE UNCHANGED << shown, currentProject >>
  /\ UNCHANGED << isAuthenticated, project, isLoggedIn, ensured, invoked,
                  statusCalls, refreshes, invocations, login, baseVars, concVars >>

\* the run of installMcp the handler started calls the next status callback
\* of the handler: onInstallationStarting, onVerifying(project.id), then
\* onVerified(project.id) or onFailed(project.id); the guard of installMcp
\* calls onFailed from any step after the pick
RunStatusCallback ==
  /\ hpc["installMcp"] \in RunPositions
  /\ \/ /\ hpc["installMcp"] = "run"
        /\ statusCalls' = Append(statusCalls, StatusCall("onInstallationStarting", None))
        /\ hpc' = [hpc EXCEPT !["installMcp"] = "starting"]
     \/ /\ hpc["installMcp"] = "starting"
        /\ statusCalls' = Append(statusCalls, StatusCall("onVerifying", project))
        /\ hpc' = [hpc EXCEPT !["installMcp"] = "verifying"]
     \/ /\ hpc["installMcp"] = "starting"
        /\ statusCalls' = Append(statusCalls, StatusCall("onFailed", project))
        /\ hpc' = [hpc EXCEPT !["installMcp"] = "done"]
     \/ /\ hpc["installMcp"] = "verifying"
        /\ \E cb \in {"onVerified", "onFailed"} :
             statusCalls' = Append(statusCalls, StatusCall(cb, project))
        /\ hpc' = [hpc EXCEPT !["installMcp"] = "done"]
  /\ UNCHANGED << isAuthenticated, currentProject, project, epc, isLoggedIn,
                  ensured, invoked, shown, refreshes, invocations, login, baseVars,
                  concVars >>

\* the run returns false without a status callback: the client pick was
\* cancelled, or the folder pick, or there is no API key
RunReturnsEarly ==
  /\ hpc["installMcp"] \in {"run", "starting"}
  /\ hpc' = [hpc EXCEPT !["installMcp"] = "done"]
  /\ UNCHANGED << isAuthenticated, currentProject, project, epc, isLoggedIn,
                  ensured, invoked, statusCalls, shown, refreshes, invocations,
                  login, baseVars, concVars >>

\* insforge.login: authProvider.login(), then the view is refreshed
CmdLogin ==
  /\ invocations < MaxInvocations
  /\ invocations' = invocations + 1
  /\ \E ok \in BOOLEAN : isAuthenticated' = (IF ok THEN TRUE ELSE isAuthenticated)
  /\ refreshes' = refreshes + 1
  /\ UNCHANGED << currentProject, hpc, project, epc, isLoggedIn, ensured,
                  invoked, statusCalls, shown, login, baseVars, concVars >>

\* insforge.logout: authProvider.logout(), which may drop the current project,
\* then the view is refreshed
CmdLogout ==
  /\ invocations < MaxInvocations
  /\ invocations' = invocations + 1
  /\ isAuthenticated' = FALSE
  /\ currentProject' \in {currentProject, None}
  /\ refreshes' = refreshes + 1
  /\ UNCHANGED << hpc, project, epc, isLoggedIn, ensured, invoked, statusCalls,
                  shown, login, baseVars, concVars >>

\* the extension is active and no command has been invoked; the user may be
\* logged in or not, with or without a current project
CmdInit ==
  /\ InstInit
  /\ ConcIdle
  /\ terminals = 0
  /\ clipboard = None
  /\ runs = 1
  /\ manualRetries = 0
  /\ unhandled = 0
  /\ RunStart
  /\ CmdIdle
  /\ isAuthenticated \in BOOLEAN
  /\ currentProject \in {None} \cup { Some(p) : p \in ProjectIds }

CmdNext ==
  \/ CmdInstallMcp
  \/ CmdSelectProject
  \/ \E h \in Handlers : IsAuthenticatedResolved(h)
  \/ \E h \in Handlers : LoginPrompt(h)
  \/ \E h \in Handlers : LoginResolved(h)
  \/ \E h \in Handlers : LoginRejected(h)
  \/ InstallMcpNoProject
  \/ SelectProjectContinue
  \/ RunStatusCallback
  \/ RunReturnsEarly
  \/ CmdLogin
  \/ CmdLogout

CmdSpec == CmdInit /\ [][CmdNext]_vars

\* ------------------------------------------- the chat opener called directly
\* prompts of up to MaxPromptLen characters
RECURSIVE Prompts(_)
Prompts(n) ==
  IF n = 0 THEN { <<>> }
  ELSE Prompts(n - 1) \cup
       { Append(p, c) : p \in { q \in Prompts(n - 1) : Len(q) = n - 1 }, c \in Chars }

\* a caller passes any client id, any prompt, and a terminal or none
ChatInit ==
  /\ InstInit
  /\ ConcIdle
  /\ CmdRunning
  /\ PollIdle
  /\ pc = "done"
  /\ clientPick = None
  /\ workspaceFolder = None
  /\ log = <<>>
  /\ failedArgs = <<>>
  /\ verifiedArgs = <<>>
  /\ ret = None
  /\ runs = 1
  /\ manualRetries = 0
  /\ workspaceFolders = None
  /\ folderPick = None
  /\ unhandled = 0
  /\ notes = <<>>
  /\ open = {}
  /\ clipboard = None
  /\ cpc = "start"
  /\ cClient \in ClientIds \cup {"unknown"}
  /\ cPrompt \in Prompts(MaxPromptLen)
  /\ \/ terminals = 0 /\ terminal = None /\ cTerminal = None
     \/ terminals = 1 /\ terminal = Some(1) /\ cTerminal = Some(1)
  /\ chatResult = None
  /\ chatThrew = FALSE
  /\ cFails = {}
  /\ fx = <<>>
  /\ shouldSkipCommand = FALSE

ChatNext == ChatStep

ChatSpec == ChatInit /\ [][ChatNext]_vars

\* both entry points: runs of installMcp, and direct calls of the chat opener
BothInit == Init \/ ChatInit
BothSpec == BothInit /\ [][Next]_vars

\* ================================================================ claims
Count(ev, seq) == Cardinality({ i \in DOMAIN seq : seq[i] = ev })
LastIndex(ev, seq) ==
  IF \E i \in DOMAIN seq : seq[i] = ev
    THEN CHOOSE i \in DOMAIN seq : seq[i] = ev /\ \A j \in DOMAIN seq : seq[j] = ev => j <= i
    ELSE 0
Before(a, b, seq) ==
  \A i \in DOMAIN seq : seq[i] = b => \E j \in 1..(i - 1) : seq[j] = a

\* C1: when 'close' is the first resolving event the outcome carries the
\* process's exit code and success = (exit code = 0); when a spawn 'error' is
\* the first resolving event the outcome is success = false, exitCode = null
\* and the spawn error's message; success is true only for exit code 0.
C1_ResultMapping ==
  ilog # <<>> =>
    /\ result # None
    /\ ilog[1].ev = "close" =>
         /\ result[1].exitCode = exitCode
         /\ result[1].success = (exitCode = Some(0))
    /\ ilog[1].ev = "error" =>
         /\ result[1].success = FALSE
         /\ result[1].exitCode = None
         /\ result[1].error = SpawnErrorMessage
    /\ result[1].success => result[1].exitCode = Some(0)

\* 'close' came first with exit code 0 and the outcome is a success
C1_Witness ==
  /\ ilog # <<>>
  /\ ilog[1].ev = "close"
  /\ exitCode = Some(0)
  /\ result # None
  /\ result[1].success

\* C2: whenever the cancellation fires while the subprocess is running (it
\* has not exited), kill() has been called and the outcome is success = false,
\* exitCode = null, error = "Installation cancelled", with the output captured
\* up to then, whatever the process does afterwards.
C2_Cancellation ==
  \A i \in DOMAIN ilog :
    (ilog[i].ev = "cancel" /\ ilog[i].at = "running") =>
      /\ killCount >= 1
      /\ result # None
      /\ result[1].success = FALSE
      /\ result[1].exitCode = None
      /\ result[1].error = CancelledMessage
      /\ result[1].stdout = ilog[i].res.stdout
      /\ result[1].stderr = ilog[i].res.stderr

\* cancelled while running with output captured; the process outlived the
\* kill, exited 0 later and 'close' was emitted
C2_Witness ==
  /\ Len(ilog) >= 2
  /\ ilog[1].ev = "cancel"
  /\ ilog[1].at = "running"
  /\ ilog[1].res.stdout # <<>>
  /\ ilog[Len(ilog)].ev = "close"
  /\ exitCode = Some(0)
  /\ result # None
  /\ result[1].error = CancelledMessage

\* C3: the outcome of an invocation is the one the first resolving event
\* ('error', 'close' or cancellation) gave, later events do not change it, and
\* the installer is spawned once per invocation.
C3_ResolvesOnce ==
  /\ ilog = <<>> => result = None
  /\ ilog # <<>> => result = Some(ilog[1].res)
  /\ spawnCount <= runs
  /\ Count("spawn", log) <= 1

\* all three events reached the runner, and a later one carried another value
C3_Witness ==
  /\ Len(ilog) = 3
  /\ \E i \in 2..3 : ilog[i].res # ilog[1].res
  /\ result = Some(ilog[1].res)

\* the steps of the latest poll cycle: the part of `log` after the latest call
\* of verifyMcpInstallation
CycleLog ==
  IF LastIndex("verify", log) = 0 THEN <<>>
  ELSE SubSeq(log, LastIndex("verify", log) + 1, Len(log))

\* the run has consumed the installer's outcome
InstallerConsumed == Count("resolved", log) = 1 /\ result # None

\* C4: within one run the first verification attempt starts only after the
\* installer has resolved (through one of its events), and the chat opener is
\* invoked only after the poll cycle has resolved; no step overlaps the one
\* before it.
C4_StepOrder ==
  /\ vpc # "idle" => (ilog # <<>> /\ result # None)
  /\ vpc \in {"attempt", "delay"} => cpc = "idle"
  /\ cpc # "idle" => (vpc = "done" /\ Len(verifiedArgs) + Len(failedArgs) >= 1)
  /\ Before("spawn", "resolved", log)
  /\ Before("resolved", "verify", log)
  /\ Before("verify", "attempt", log)
  /\ Before("attempt", "tryOpenChat", log)
  /\ \A i \in DOMAIN log :
       log[i] = "tryOpenChat" => \A j \in (i + 1)..Len(log) : log[j] # "attempt"

\* a run that went through all three steps: installer, three attempts, chat
C4_Witness ==
  /\ attempts = 3
  /\ cbpc = "done"
  /\ cpc = "done"
  /\ Count("attempt", log) = 3

C6_ChatOnlyAfterVerified ==
  /\ cpc # "idle" => (cycle = "install" /\ Len(verifiedArgs) = 1 /\ failedArgs = <<>>)
  /\ \A i \in DOMAIN log :
       log[i] = "tryOpenChat" => (i > 1 /\ log[i - 1] = "onVerified")
  /\ (Count("verify", log) >= 1 /\ failedArgs # <<>>) =>
       /\ cpc = "idle"
       /\ fx = <<>>
       /\ Count("tryOpenChat", log) = 0
       /\ \E i \in DOMAIN notes :
            notes[i].level = "warning" /\ notes[i].actions = {"Retry Verification"}

\* the automatic cycle failed, the manual retry verified, chat stayed closed
C6_Witness ==
  /\ manualRetries = 1
  /\ failedArgs # <<>>
  /\ verifiedArgs # <<>>
  /\ cpc = "idle"

\* C7: as soon as an attempt of a poll cycle (the 1st, 2nd or 3rd) returns a
\* non-empty tool list, onVerified is called with that list, once; no further
\* attempt is made and onFailed is not called in that cycle, even when earlier
\* attempts of the cycle failed.
C7_PollSuccess ==
  (vpc = "done" /\ lastTools # <<>>) =>
    LET c == CycleLog IN
      /\ Count("onVerified", c) = 1
      /\ Count("onFailed", c) = 0
      /\ verifiedArgs # <<>>
      /\ verifiedArgs[Len(verifiedArgs)] = lastTools
      /\ attempts \in 1..3
      /\ Count("attempt", c) = attempts
      /\ LastIndex("onVerified", c) = LastIndex("attempt", c) + 1

\* two attempts failed, the third returned two tools
C7_Witness ==
  /\ vpc = "done"
  /\ attempts = 3
  /\ lastError # None
  /\ lastTools = <<"a", "b">>
  /\ verifiedArgs = << <<"a", "b">> >>
  /\ failedArgs = <<>>

\* C8: when every attempt of a poll cycle fails, the poller makes exactly
\* three attempts and then calls onFailed once, with the error of the last
\* attempt; while the cycle is polling nothing is reported, and onVerified is
\* not called in that cycle.
C8_PollFailure ==
  LET c == CycleLog IN
    /\ (vpc = "done" /\ lastTools = <<>>) =>
         /\ attempts = 3
         /\ Count("attempt", c) = 3
         /\ Count("onFailed", c) = 1
         /\ c[Len(c)] = "onFailed"
         /\ Count("onVerified", c) = 0
         /\ failedArgs # <<>>
         /\ failedArgs[Len(failedArgs)] = lastError
    /\ vpc \in {"attempt", "delay"} =>
         /\ Count("onFailed", c) = 0
         /\ Count("onVerified", c) = 0
         /\ attempts < 3

\* three attempts failed with different errors and the last one was reported
C8_Witness ==
  /\ vpc = "done"
  /\ cycle = "install"
  /\ attempts = 3
  /\ lastError = <<"rejected">>
  /\ failedArgs = << <<"rejected">> >>
  /\ Count("attempt", log) = 3

\* C9: when the client quick-pick returns no selection, installMcp returns
\* false and that run calls none of onInstallationStarting, onVerifying,
\* onVerified and onFailed, spawns no installer, creates no terminal and shows
\* no notification.
C9_PickCancelled ==
  (pc # "pick" /\ clientPick = None) =>
    /\ pc = "done"
    /\ ret = Some(FALSE)
    /\ log = <<"return">>
    /\ failedArgs = <<>>
    /\ verifiedArgs = <<>>
    /\ terminal = None
    /\ notes = <<>>
    /\ vpc = "idle"
    /\ cpc = "idle"
    /\ fx = <<>>
    /\ spawnCount = runs - 1
    /\ terminals = runs - 1

\* the pick of a second run was cancelled
C9_Witness ==
  /\ runs = 2
  /\ pc = "done"
  /\ clientPick = None
  /\ ret = Some(FALSE)

\* the host primitives whose failure the chat opener turns into a degraded
\* success, and the ones whose failure it reports
DowngradedFailures == {"getContext", "openCommand", "pasteCommand"}
ReportedFailures ==
  {"executeCommand", "clipboard.writeText", "createTerminal", "terminal.show",
   "terminal.sendText"}

\* C10: tryOpenChatWithPrompt never throws to its caller: for every client id
\* and every failure of a host primitive the call ends with a ChatOpenResult;
\* a failure that is not downgraded gives success = false, method 'none' and
\* an error string, and a downgraded one gives success.
C10_NeverThrows ==
  /\ ~chatThrew
  /\ cFails \subseteq DowngradedFailures \cup ReportedFailures
  /\ cpc = "done" =>
       /\ chatResult # None
       /\ chatResult[1].success \in BOOLEAN
       /\ chatResult[1].method \in {"command", "clipboard", "terminal", "none"}
       /\ (cFails \cap ReportedFailures # {}) =>
            /\ chatResult[1].success = FALSE
            /\ chatResult[1].method = "none"
            /\ chatResult[1].error # None
       /\ (cFails \cap ReportedFailures = {}) =>
            /\ chatResult[1].success = TRUE
            /\ chatResult[1].error = None

\* the clipboard write failed for a clipboard-paste client and the call
\* returned a failure result
C10_Witness ==
  /\ cpc = "done"
  /\ cClient = "kiro"
  /\ "clipboard.writeText" \in cFails
  /\ chatResult # None
  /\ chatResult[1].success = FALSE

\* the host primitives called by the latest call of the chat opener
Called(op) == \E k \in DOMAIN fx : fx[k].op = op

\* C11: for a client id the chat table does not hold, or whose entry has no
\* paramFormat (cline, roocode), tryOpenChatWithPrompt returns
\* {success: true, method: 'none'} and calls no host primitive: the clipboard
\* is not written, no command is executed, no terminal is created or written
\* to, and nothing is shown.
C11_NoStrategyNoEffect ==
  (cpc = "done" /\ cClient \notin
     {"cursor", "copilot", "trae", "qoder", "antigravity", "windsurf", "kiro",
      "claude-code", "codex"}) =>
    /\ chatResult = Some(ChatOpenResult(TRUE, "none", None))
    /\ ~chatThrew
    /\ fx = <<>>
    /\ cFails = {}
    /\ clipboard = None
    /\ notes = <<>>
    /\ terminals = Len(cTerminal)

\* an id the table does not hold was passed and the call returned
C11_Witness ==
  /\ cpc = "done"
  /\ cClient = "unknown"
  /\ chatResult # None
  /\ chatResult[1].method = "none"

\* C12 (as amended): for every clipboard-paste client, when the clipboard
\* write returned, the clipboard after tryOpenChatWithPrompt returns holds the
\* prompt passed in, whether the open-chat command and the paste command
\* succeeded or failed.
C12_ClipboardHoldsPrompt ==
  (cpc = "done" /\ cClient \in {"trae", "qoder", "antigravity", "windsurf", "kiro"}
     /\ "clipboard.writeText" \notin cFails) =>
    /\ clipboard = Some(cPrompt)
    /\ \E k \in DOMAIN fx :
         fx[k] = Effect("clipboard.writeText", cPrompt, TRUE)

\* C12 as stated: for every clipboard-paste client the clipboard after the
\* call returns holds the prompt passed in.
C12_AsStated ==
  (cpc = "done" /\ cClient \in {"trae", "qoder", "antigravity", "windsurf", "kiro"}) =>
    clipboard = Some(cPrompt)

\* the write returned, the open-chat command or the paste failed, and the
\* clipboard holds a prompt with a double quote in it
C12_Witness ==
  /\ cpc = "done"
  /\ cClient \in {"trae", "qoder", "antigravity", "windsurf", "kiro"}
  /\ cFails \cap {"openCommand", "pasteCommand"} # {}
  /\ \E i \in DOMAIN cPrompt : cPrompt[i] = DQ
  /\ clipboard = Some(cPrompt)

\* C13: for a clipboard-paste client, once the clipboard write has succeeded
\* the result is {success: true, method: 'clipboard'}; after a failed
\* open-chat command no timer is set and the paste command is never invoked;
\* after a failed paste the result is still a success; the result is a
\* failure exactly when the clipboard write failed.
C13_ClipboardDegraded ==
  (cpc = "done" /\ cClient \in {"trae", "qoder", "antigravity", "windsurf", "kiro"}) =>
    /\ chatResult # None
    /\ "clipboard.writeText" \notin cFails =>
         chatResult = Some(ChatOpenResult(TRUE, "clipboard", None))
    /\ "openCommand" \in cFails =>
         /\ ~Called("setTimeout")
         /\ \A k \in DOMAIN fx :
              fx[k].arg # <<"editor.action.clipboardPasteAction">>
         /\ fx[Len(fx)].op = "executeCommand" /\ ~fx[Len(fx)].ok
    /\ "pasteCommand" \in cFails => chatResult[1].success
    /\ ~chatResult[1].success <=> "clipboard.writeText" \in cFails
    /\ "clipboard.writeText" \in cFails => Len(fx) = 1

\* the clipboard was written, the paste command failed, the call succeeded
C13_Witness ==
  /\ cpc = "done"
  /\ cClient = "trae"
  /\ "pasteCommand" \in cFails
  /\ clipboard = Some(cPrompt)
  /\ chatResult = Some(ChatOpenResult(TRUE, "clipboard", None))

\* the double quotes among the first i - 1 characters of a prompt
DQsBefore(prompt, i) == Cardinality({ j \in 1..(i - 1) : prompt[j] = DQ })

\* `escaped` is `prompt` with one backslash put before every double quote and
\* every other character unchanged, in the same order
IsEscapeOf(escaped, prompt) ==
  /\ Len(escaped) = Len(prompt) + DQsBefore(prompt, Len(prompt) + 1)
  /\ \A i \in DOMAIN prompt :
       LET at == i + DQsBefore(prompt, i) IN
         IF prompt[i] = DQ
           THEN escaped[at] = BS /\ escaped[at + 1] = DQ
           ELSE escaped[at] = prompt[i]

\* C14: for every prompt, the text sent to the terminal is the client's
\* terminal command, a space, and the prompt between double quotes, with one
\* backslash before every double quote of the prompt and every other
\* character unchanged and in order; a terminal call that returns a success
\* has sent it.
C14_TerminalEscaping ==
  /\ \A k \in DOMAIN fx :
       fx[k].op = "terminal.sendText" =>
         LET sent == fx[k].arg IN
           /\ Len(sent) >= 5
           /\ sent[2] = (IF cClient = "claude-code" THEN "claude" ELSE "codex")
           /\ sent[3] = " "
           /\ sent[4] = DQ
           /\ sent[Len(sent)] = DQ
           /\ IsEscapeOf(SubSeq(sent, 5, Len(sent) - 1), cPrompt)
  /\ (cpc = "done" /\ cClient \in {"claude-code", "codex"} /\ cFails = {}) =>
       /\ chatResult = Some(ChatOpenResult(TRUE, "terminal", None))
       /\ fx[Len(fx)].op = "terminal.sendText"

\* a prompt made of a backslash and a double quote was sent to the terminal
C14_Witness ==
  /\ cpc = "done"
  /\ cClient = "codex"
  /\ cPrompt = <<BS, DQ>>
  /\ Called("terminal.sendText")
  /\ chatResult = Some(ChatOpenResult(TRUE, "terminal", None))

C16_VerifyingBeforeInstaller ==
  /\ Count("spawn", log) = 1 =>
       \E i \in 1..(Len(log) - 1) : log[i] = "onVerifying" /\ log[i + 1] = "spawn"
  /\ Before("onVerifying", "resolved", log)
  /\ Before("onVerifying", "attempt", log)
  /\ Count("spawn", log) = 0 => Count("onVerifying", log) = 0
  /\ (InstallerConsumed /\ ~result[1].success) => Count("onVerifying", log) = 1

\* C16 as stated: onVerifying is called after the installer has resolved with
\* success and before the first attempt, and a run whose installer fails or
\* is cancelled never calls it.
C16_AsStated ==
  /\ Before("resolved", "onVerifying", log)
  /\ Before("onVerifying", "attempt", log)
  /\ \A i \in DOMAIN log : log[i] = "onVerifying" => (result # None /\ result[1].success)
  /\ (InstallerConsumed /\ ~result[1].success) => Count("onVerifying", log) = 0

\* the installation was cancelled, and the run had called onVerifying
C16_Witness ==
  /\ InstallerConsumed
  /\ ilog[1].ev = "cancel"
  /\ ~result[1].success
  /\ Count("onVerifying", log) = 1
  /\ failedArgs = <<CancelledMessage>>

\* C17 as stated: every run in which the client pick was confirmed has called
\* onVerified or onFailed by the time it has ended (installMcp has returned
\* and no poll cycle is under way).
C17_AsStated ==
  (pc = "done" /\ Count("onInstallationStarting", log) = 1 /\ vpc \in {"idle", "done"}) =>
    (failedArgs # <<>> \/ verifiedArgs # <<>>)

\* C18 as stated: every exception raised in a step of installMcp, the
\* verification callbacks included, is caught by the guard, reported through
\* onFailed with an error message, and installMcp returns false; no rejection
\* is left unhandled.
C18_AsStated ==
  /\ unhandled = 0
  /\ ~chatThrew
  /\ Count("caught", log) = 1 =>
       /\ ret = Some(FALSE)
       /\ failedArgs # <<>>
       /\ \E i \in DOMAIN notes : notes[i] = GuardNote(failedArgs[Len(failedArgs)])

\* C19: in a run of installMcp without a manual retry of the verification,
\* onInstallationStarting, onVerifying and onVerified are each called at most
\* once.
C19_CallbacksAtMostOnce ==
  Count("verify", log) <= 1 =>
    /\ Count("onInstallationStarting", log) <= 1
    /\ Count("onVerifying", log) <= 1
    /\ Count("onVerified", log) <= 1
    /\ Len(verifiedArgs) <= 1

\* a run that called each of the three callbacks, after two failed attempts
C19_Witness ==
  /\ Count("verify", log) = 1
  /\ attempts = 3
  /\ Count("onInstallationStarting", log) = 1
  /\ Count("onVerifying", log) = 1
  /\ Count("onVerified", log) = 1

\* C20: once the workspace step is over, for claude-code and copilot the
\* folder is the home directory with no folder open, the only folder with
\* one, and the folder the user picked with several; a cancelled folder pick
\* returns false before the API key is fetched and before any spawn; for every
\* other client no folders are read, no folder pick is shown and no folder is
\* resolved; the installer is spawned with the resolved folder as cwd, or
\* with none.
C20_WorkspaceResolution ==
  /\ (clientPick # None /\ pc \notin {"pick", "workspace"}) =>
       IF clientPick[1] \in {"claude-code", "copilot"}
         THEN /\ workspaceFolders # None
              /\ workspaceFolders[1] = 0 =>
                   workspaceFolder = Some(HomeDir) /\ Count("folderPick", log) = 0
              /\ workspaceFolders[1] = 1 =>
                   workspaceFolder = Some(FolderPath(1)) /\ Count("folderPick", log) = 0
              /\ workspaceFolders[1] > 1 =>
                   /\ Count("folderPick", log) = 1
                   /\ folderPick # None =>
                        /\ folderPick[1] \in 1..workspaceFolders[1]
                        /\ workspaceFolder = Some(FolderPath(folderPick[1]))
                   /\ folderPick = None =>
                        /\ workspaceFolder = None
                        /\ pc = "done"
                        /\ ret = Some(FALSE)
                        /\ Count("getProjectApiKey", log) = 0
                        /\ Count("spawn", log) = 0
                        /\ spawnCount = runs - 1
                        /\ failedArgs = <<>>
         ELSE /\ workspaceFolders = None
              /\ folderPick = None
              /\ workspaceFolder = None
              /\ Count("folderPick", log) = 0
  /\ Count("spawn", log) = 1 => cwd = workspaceFolder

\* with two folders open the second was picked for claude-code, and the
\* installer was spawned there
C20_Witness ==
  /\ clientPick = Some("claude-code")
  /\ workspaceFolders = Some(2)
  /\ folderPick = Some(2)
  /\ Count("spawn", log) = 1
  /\ cwd = Some(FolderPath(2))

\* C21: in every run that spawns the installer, onInstallationStarting has
\* been called exactly once, before the installer is spawned and before
\* onVerifying; between that call and the spawn the run reports nothing, so
\* the installer starts from the reset status and this run's onVerifying.
C21_ResetBeforeInstalling ==
  /\ Count("spawn", log) >= 1 =>
       /\ Count("onInstallationStarting", log) = 1
       /\ log[1] = "onInstallationStarting"
       /\ \A i \in 1..LastIndex("spawn", log) :
            log[i] \notin {"onVerified", "onFailed"}
  /\ Before("onInstallationStarting", "onVerifying", log)
  /\ Before("onInstallationStarting", "spawn", log)
  /\ pc = "installing" => (failedArgs = <<>> /\ verifiedArgs = <<>>)

\* the installer of a second run is running, after a first run that failed
C21_Witness ==
  /\ runs = 2
  /\ pc = "installing"
  /\ proc = "running"
  /\ Count("onInstallationStarting", log) = 1

\* C22: retryVerification calls onVerifying and then runs a full poll cycle:
\* its attempts are counted from 1 up to the same maximum as the automatic
\* cycle's, whatever the earlier cycle used; the cycle ends with exactly one
\* onVerified or onFailed (onFailed only after the full number of attempts);
\* the installer is not spawned again and tryOpenChatWithPrompt is not called.
C22_ManualRetry ==
  cycle = "retry" =>
    LET c == CycleLog
        v == LastIndex("verify", log) IN
      /\ v > 1 /\ log[v - 1] = "onVerifying"
      /\ Count("verify", log) = 2
      /\ Count("attempt", c) = attempts
      /\ attempts <= MCP_VERIFY_MAX_ATTEMPTS
      /\ MaxAttempts("retry") = MaxAttempts("install")
      /\ vpc = "done" =>
           /\ Count("onVerified", c) + Count("onFailed", c) = 1
           /\ Count("onFailed", c) = 1 => attempts = MCP_VERIFY_MAX_ATTEMPTS
      /\ vpc # "done" => Count("onVerified", c) + Count("onFailed", c) = 0
      /\ Count("spawn", log) = 1
      /\ spawnCount = runs
      /\ Count("tryOpenChat", log) = 0
      /\ cpc = "idle"
      /\ fx = <<>>

\* the automatic cycle used three attempts and failed; the manual retry was
\* verified on its first attempt
C22_Witness ==
  /\ cycle = "retry"
  /\ vpc = "done"
  /\ attempts = 1
  /\ Count("attempt", log) = 4
  /\ Len(failedArgs) = 1
  /\ Len(verifiedArgs) = 1

\* C23 as stated: every failure notification (an error or a warning message)
\* carries a retry action or a view-output action; the manual-paste messages
\* of the chat opener are informational and carry their instruction.
C23_AsStated ==
  \A i \in DOMAIN notes :
    notes[i].level \in {"error", "warning"} =>
      notes[i].actions \cap {"Retry", "Retry Verification", "View Terminal"} # {}

\* the strategy of a chat-table entry
Strategy(config) ==
  CASE config.paramFormat = "object" -> "direct"
    [] config.paramFormat = "clipboard" -> "clipboard-paste"
    [] config.paramFormat = "terminal" -> "terminal"
    [] OTHER -> "none"

\* C25: the pick list offers 11 distinct client ids; each has a chat-table
\* entry with one strategy; a direct or clipboard-paste entry has a non-empty
\* command, a terminal entry a non-empty terminal command; the orchestrator
\* calls the chat opener only with an id of the list, and the entry the call
\* reads is the table's.
C25_ClientTable ==
  /\ Len(MCP_CLIENTS) = 11
  /\ Cardinality(ClientIds) = 11
  /\ \A id \in ClientIds :
       /\ CHAT_COMMANDS(id) # None
       /\ LET config == CHAT_COMMANDS(id)[1] IN
            /\ Strategy(config) \in {"direct", "clipboard-paste", "terminal", "none"}
            /\ Strategy(config) \in {"direct", "clipboard-paste"} =>
                 config.command \notin {Undefined, ""}
            /\ Strategy(config) = "terminal" =>
                 config.terminalCommand \notin {Undefined, ""}
  /\ clientPick # None => clientPick[1] \in ClientIds
  /\ (cpc # "idle" /\ clientPick # None) =>
       /\ cClient = clientPick[1]
       /\ \A k \in DOMAIN fx :
            fx[k].op = "createTerminal" =>
              fx[k].arg = <<CHAT_COMMANDS(cClient)[1].terminalCommand>>

\* a run opened the chat of a client whose entry sets a paste delay
C25_Witness ==
  /\ clientPick = Some("kiro")
  /\ cpc = "done"
  /\ Called("setTimeout")

\* C26: a poll cycle makes at most 3 attempts; when it has ended exactly one
\* of onVerified and onFailed has been called, onVerified after an attempt
\* that returned a non-empty list and onFailed after one that returned an
\* error; an attempt that returned an empty list has left an error; onVerified
\* is never called with an empty list.
C26_VerificationOutcome ==
  LET c == CycleLog IN
    /\ attempts <= 3
    /\ Count("attempt", c) = attempts
    /\ vpc = "done" =>
         /\ Count("onVerified", c) + Count("onFailed", c) = 1
         /\ Count("onVerified", c) = 1 <=> lastTools # <<>>
         /\ Count("onFailed", c) = 1 <=> (lastTools = <<>> /\ lastError # None)
    /\ (attempts >= 1 /\ lastTools = <<>>) => lastError # None
    /\ \A i \in DOMAIN verifiedArgs : verifiedArgs[i] # <<>>
    /\ \A i \in DOMAIN failedArgs : failedArgs[i] # <<>>

\* the third attempt returned an empty list and the cycle reported it
C26_Witness ==
  /\ vpc = "done"
  /\ attempts = 3
  /\ lastTools = <<>>
  /\ lastError = <<"empty tool list">>
  /\ failedArgs = << <<"empty tool list">> >>

\* the position in fx of the latest call of primitive `op`, 0 when not called
At(op) ==
  IF Called(op)
    THEN CHOOSE k \in DOMAIN fx :
           fx[k].op = op /\ \A j \in DOMAIN fx : fx[j].op = op => j <= k
    ELSE 0

\* the position in fx of the open-chat command of a clipboard-paste call
OpenAt ==
  IF \E k \in DOMAIN fx :
       fx[k].op = "executeCommand" /\ fx[k].arg = <<CHAT_COMMANDS(cClient)[1].command>>
    THEN CHOOSE k \in DOMAIN fx :
           fx[k].op = "executeCommand" /\ fx[k].arg = <<CHAT_COMMANDS(cClient)[1].command>>
    ELSE 0

\* the position in fx of the paste command
PasteAt ==
  IF \E k \in DOMAIN fx :
       fx[k].op = "executeCommand" /\ fx[k].arg = <<"editor.action.clipboardPasteAction">>
    THEN CHOOSE k \in DOMAIN fx :
           fx[k].op = "executeCommand" /\ fx[k].arg = <<"editor.action.clipboardPasteAction">>
    ELSE 0

\* C27: in a clipboard-paste call the clipboard write is the first primitive
\* called. Only a client with a skip key (qoder) probes the context. When the
\* probe reads true the open-chat command is not invoked and the paste timer
\* is set to 50 ms; when it reads anything else, or raises, or the client has
\* no skip key, the open-chat command is invoked and, when it returns, the
\* timer is set to the client's pasteDelayMs (150 ms by default, 1000 ms for
\* kiro). The paste runs after the timer was set.
C27_ClipboardProbe ==
  (cClient \in {"trae", "qoder", "antigravity", "windsurf", "kiro"} /\ fx # <<>>) =>
    /\ fx[1].op = "clipboard.writeText"
    /\ Count("clipboard.writeText", [k \in DOMAIN fx |-> fx[k].op]) = 1
    /\ Called("getContext") => (cClient = "qoder" /\ At("getContext") = 2)
    /\ (cClient = "qoder" /\ cpc \in {"open", "paste", "done"} /\ fx[1].ok) =>
         Called("getContext")
    /\ cpc \in {"open", "paste", "done"} =>
         (shouldSkipCommand <=>
            (Called("getContext") /\ fx[At("getContext")].arg = <<"inChat", "true">>
               /\ fx[At("getContext")].ok))
    /\ shouldSkipCommand => (OpenAt = 0 /\ cpc \in {"paste", "done"})
    /\ (cpc \in {"paste", "done"} /\ fx[1].ok /\ ~shouldSkipCommand) => OpenAt > 1
    /\ Called("setTimeout") =>
         /\ fx[At("setTimeout")].arg =
              << IF shouldSkipCommand THEN 50
                 ELSE IF cClient = "kiro" THEN 1000 ELSE 150 >>
         /\ ~shouldSkipCommand => (OpenAt = At("setTimeout") - 1 /\ fx[OpenAt].ok)
         /\ shouldSkipCommand => At("getContext") = At("setTimeout") - 1
    /\ PasteAt > 0 => (Called("setTimeout") /\ PasteAt = At("setTimeout") + 1)
    /\ (cpc = "done" /\ fx[1].ok /\ "openCommand" \notin cFails) => PasteAt > 0

\* qoder's probe read true: no open command, a 50 ms timer, then the paste
C27_Witness ==
  /\ cClient = "qoder"
  /\ cpc = "done"
  /\ shouldSkipCommand
  /\ Len(fx) = 4
  /\ fx[3] = Effect("setTimeout", <<50>>, TRUE)
  /\ fx[4].arg = <<"editor.action.clipboardPasteAction">>

\* C28: tryOpenChatWithPrompt shows and writes to the terminal it was given
\* and creates one only when it was given none; when no terminal primitive
\* raises the result is {success: true, method: 'terminal'} right after
\* sendText. installMcp passes its installer-output terminal exactly when the
\* picked client uses the terminal strategy (claude-code, codex), so a run
\* creates one terminal and the chat opener none.
C28_TerminalReuse ==
  /\ Called("createTerminal") => (cTerminal = None /\ cClient \in {"claude-code", "codex"})
  /\ \A k \in DOMAIN fx :
       fx[k].op \in {"terminal.show", "terminal.sendText"} =>
         /\ cTerminal # None => (fx[k].arg[1] = cTerminal[1] /\ ~Called("createTerminal"))
         /\ cTerminal = None => (At("createTerminal") = 1 /\ fx[1].ok
                                   /\ fx[k].arg[1] = terminals)
  /\ (cpc = "done" /\ cClient \in {"claude-code", "codex"} /\ cFails = {}) =>
       /\ chatResult = Some(ChatOpenResult(TRUE, "terminal", None))
       /\ fx[Len(fx)].op = "terminal.sendText"
  /\ (cpc # "idle" /\ clientPick # None) =>
       /\ terminal # None
       /\ cTerminal = (IF clientPick[1] \in {"claude-code", "codex"} THEN terminal ELSE None)
       /\ ~Called("createTerminal")
       /\ terminals = runs
  /\ terminal # None => terminal[1] <= terminals

\* codex was picked, and the command was sent to the run's own terminal
C28_Witness ==
  /\ clientPick = Some("codex")
  /\ cpc = "done"
  /\ terminal # None
  /\ cTerminal = terminal
  /\ Called("terminal.sendText")
  /\ fx[At("terminal.sendText")].arg[1] = terminal[1]
  /\ chatResult = Some(ChatOpenResult(TRUE, "terminal", None))

\* C29: for cursor and copilot tryOpenChatWithPrompt calls one host primitive,
\* the configured command with {query: prompt, isPartialQuery: true}; it
\* writes nothing to the clipboard; the result is {success: true, method:
\* 'command'} exactly when the command raised no error, and otherwise
\* {success: false, method: 'none'} with the error's string.
C29_DirectInvoke ==
  (cpc = "done" /\ cClient \in {"cursor", "copilot"}) =>
    /\ ~chatThrew
    /\ Len(fx) = 1
    /\ fx[1].op = "executeCommand"
    /\ fx[1].arg = <<"workbench.action.chat.open", cPrompt, TRUE>>
    /\ chatResult # None
    /\ fx[1].ok => chatResult = Some(ChatOpenResult(TRUE, "command", None))
    /\ ~fx[1].ok =>
         chatResult = Some(ChatOpenResult(FALSE, "none", HostError("executeCommand")))
    /\ chatResult[1].success <=> fx[1].ok
    /\ notes = <<>>

\* copilot's chat command raised an error and the call returned a failure
C29_Witness ==
  /\ cpc = "done"
  /\ cClient = "copilot"
  /\ cPrompt # <<>>
  /\ ~fx[1].ok
  /\ chatResult = Some(ChatOpenResult(FALSE, "none", HostError("executeCommand")))

\* onVerifying was called and neither onVerified nor onFailed has been since
MarkedVerifying ==
  /\ LastIndex("onVerifying", log) > LastIndex("onVerified", log)
  /\ LastIndex("onVerifying", log) > LastIndex("onFailed", log)

\* C30: once onVerifying has been called, onVerified or onFailed is
\* eventually called, given that the installer ends or is cancelled, its
\* events are delivered and every verification attempt returns; the mark is
\* taken away by such a call only, never by a reset.
C30_NeverStuckVerifying ==
  /\ MarkedVerifying ~> ~MarkedVerifying
  /\ [][(MarkedVerifying /\ ~MarkedVerifying') =>
          Len(failedArgs') + Len(verifiedArgs') = Len(failedArgs) + Len(verifiedArgs) + 1]_vars

\* both the automatic cycle and the manual retry were marked and reported
C30_Witness ==
  /\ Count("onVerifying", log) = 2
  /\ cycle = "retry"
  /\ vpc = "done"
  /\ ~MarkedVerifying
  /\ Len(failedArgs) + Len(verifiedArgs) = 2

\* the steps that belong to the verification and to the opening of the chat
VerificationSteps == {"attempt", "onVerified", "tryOpenChat", "chatReturned"}

C24_RunsNotExcluded ==
  /\ [][\A r \in Runs : \A q \in Runs \ {r} :
          (rpc[r] = "idle" /\ rpc'[r] = "installing") =>
            (rproc'[q] = rproc[q] /\ rkills'[q] = rkills[q] /\ rpc'[q] = rpc[q])]_vars
  /\ [][\A r \in Runs :
          rkills'[r] # rkills[r] => (~rcancelled[r] /\ rcancelled'[r])]_vars
  /\ [][\A r \in Runs : \A q \in Runs \ {r} :
          (rcancelled'[r] # rcancelled[r]) =>
            (rproc'[q] = rproc[q] /\ rkills'[q] = rkills[q])]_vars
  /\ [](\A r \in Runs : rkills[r] > 0 => rcancelled[r])
  /\ [](\A r \in Runs : rpc[r] = "idle" => ENABLED RunInstall(r))

\* two runs for the same client are installing, both subprocesses running
C24_Witness ==
  /\ rpc[1] = "installing"
  /\ rpc[2] = "installing"
  /\ rclient[1] = "cursor"
  /\ rclient[2] = "cursor"
  /\ rproc[1] = "running"
  /\ rproc[2] = "running"
  /\ rkills = [r \in Runs |-> 0]

====
